---- MODULE Spec2Model ----
(***************************************************************************)
(* Model of the code generated by poem-openapi's #[derive(Enum)]           *)
(* (poem-openapi-derive/src/enum.rs): representation resolution, the       *)
(* variant catalog, the schema descriptor, the JSON / parameter codec, the *)
(* remote conversions and schema registration.                             *)
(*                                                                         *)
(* Strings are sequences of one-character strings.  A 64-bit machine word  *)
(* is a sequence of four 16-bit limbs, least significant first; a value of *)
(* an integer type is kept as the 64-bit word obtained by extending it     *)
(* according to the signedness of its type.                                *)
(***************************************************************************)
EXTENDS Integers, Sequences, FiniteSets, TLC

VARIABLES def, gen, op, arg, res, registry, calls, panicked, tasks

vars == <<def, gen, op, arg, res, registry, calls, panicked, tasks>>

---------------------------------------------------------------------------
(* Machine integers                                                        *)

Base == 256 * 256
Half == 128 * 256
Top  == Base - 1

Kinds == {"i32", "i64", "u32", "u64"}

Signed(ty) == ty \in {"i32", "i64", "isize"}

Is32(ty) == ty \in {"i32", "u32"}

\* the top bit of a 64-bit word
TopBit(w) == w[4] >= Half

\* `x as ty`, x given as the 64-bit extension of its value: keep the low
\* bits of the target width, then extend by the target's signedness.
Cast(ty, w) ==
    IF Is32(ty)
    THEN IF ty = "i32" /\ w[2] >= Half
         THEN <<w[1], w[2], Top, Top>>
         ELSE <<w[1], w[2], 0, 0>>
    ELSE w

\* the value of a word of type ty is negative
IsNegative(ty, w) == Signed(ty) /\ TopBit(w)

\* w * 10 + d on 64-bit unsigned words; ovf is set when the result needs
\* more than 64 bits (checked_mul / checked_add of the digit loop)
MulAdd(w, d) ==
    LET t1 == w[1] * 10 + d
        t2 == w[2] * 10 + (t1 \div Base)
        t3 == w[3] * 10 + (t2 \div Base)
        t4 == w[4] * 10 + (t3 \div Base)
    IN  [w |-> <<t1 % Base, t2 % Base, t3 % Base, t4 % Base>>,
         ovf |-> (t4 \div Base) > 0]

\* two's complement negation of a 64-bit word
Negate(w) ==
    LET n1 == (Top - w[1]) + 1
        n2 == (Top - w[2]) + (n1 \div Base)
        n3 == (Top - w[3]) + (n2 \div Base)
        n4 == (Top - w[4]) + (n3 \div Base)
    IN  <<n1 % Base, n2 % Base, n3 % Base, n4 % Base>>

IsZero(w) == w = <<0, 0, 0, 0>>

\* w \div 10 and w % 10 on 64-bit unsigned words
DivMod10(w) ==
    LET a4 == w[4]
        a3 == (a4 % 10) * Base + w[3]
        a2 == (a3 % 10) * Base + w[2]
        a1 == (a2 % 10) * Base + w[1]
    IN  [q |-> <<a1 \div 10, a2 \div 10, a3 \div 10, a4 \div 10>>,
         r |-> a1 % 10]

Digits == <<"0", "1", "2", "3", "4", "5", "6", "7", "8", "9">>

DigitChars == {Digits[i] : i \in 1..10}

DigitVal(c) == (CHOOSE i \in 1..10 : Digits[i] = c) - 1

RECURSIVE UDecimal(_)
\* decimal text of an unsigned 64-bit word (Display for u64)
UDecimal(w) ==
    LET dm == DivMod10(w)
    IN  IF IsZero(dm.q)
        THEN <<Digits[dm.r + 1]>>
        ELSE Append(UDecimal(dm.q), Digits[dm.r + 1])

\* the magnitude m of a non-negative value, or of a negated one, fits ty
FitsPos(ty, m) ==
    CASE ty = "u64" -> TRUE
      [] ty \in {"i64", "isize"} -> m[4] < Half
      [] ty = "u32" -> m[3] = 0 /\ m[4] = 0
      [] ty = "i32" -> m[3] = 0 /\ m[4] = 0 /\ m[2] < Half
      [] ty = "u8"  -> m[2] = 0 /\ m[3] = 0 /\ m[4] = 0 /\ m[1] < 256

FitsNeg(ty, m) ==
    CASE ty \in {"i64", "isize"} ->
             m[4] < Half \/ m = <<0, 0, 0, Half>>
      [] ty = "i32" ->
             m[3] = 0 /\ m[4] = 0 /\ (m[2] < Half \/ (m[2] = Half /\ m[1] = 0))
      [] OTHER -> IsZero(m)

RECURSIVE Magnitude(_, _)
\* the digit loop of str::parse: acc is [w, ovf, bad]; the loop returns at
\* the first character that is no digit and at the first overflow
Magnitude(s, acc) ==
    IF acc.bad \/ acc.ovf \/ s = <<>> THEN acc
    ELSE IF Head(s) \notin DigitChars
         THEN [acc EXCEPT !.bad = TRUE]
         ELSE LET ma == MulAdd(acc.w, DigitVal(Head(s)))
              IN  Magnitude(Tail(s), [w |-> ma.w, ovf |-> ma.ovf, bad |-> FALSE])

\* value.parse::<ty>(): [ok |-> TRUE, w |-> word] or [ok |-> FALSE].
\* An empty string, a lone sign, a non-digit, a "-" on an unsigned type and
\* a value outside the type are errors; a leading "+" is accepted.
ParseInt(ty, s) ==
    LET neg    == s # <<>> /\ Head(s) = "-" /\ Signed(ty)
        signed == s # <<>> /\ (Head(s) = "+" \/ neg)
        body   == IF signed THEN Tail(s) ELSE s
        m      == Magnitude(body, [w |-> <<0, 0, 0, 0>>, ovf |-> FALSE, bad |-> FALSE])
    IN  IF body = <<>> \/ m.bad \/ m.ovf
        THEN [ok |-> FALSE]
        ELSE IF neg
             THEN IF FitsNeg(ty, m.w) THEN [ok |-> TRUE, w |-> Negate(m.w)]
                                      ELSE [ok |-> FALSE]
             ELSE IF FitsPos(ty, m.w) THEN [ok |-> TRUE, w |-> m.w]
                                      ELSE [ok |-> FALSE]

---------------------------------------------------------------------------
(* Option values                                                           *)

NoneV == [some |-> FALSE]

Some(x) == [some |-> TRUE, v |-> x]

---------------------------------------------------------------------------
(* Representation resolver                                                 *)

\* parse_oai_enum_repr: the four recognised strings; anything else, like an
\* absent override, is None
parse_oai_enum_repr(string) ==
    IF string.some /\ string.v \in Kinds THEN Some(string.v) ELSE NoneV

RECURSIVE ScanNested(_, _)
\* list.parse_nested_meta(..) with the closure of detect_rust_repr: every
\* item's path is handed to the closure, which records a recognised kind;
\* the parser stops with an error (ignored by `let _ =`) at the first item
\* whose arguments the closure did not consume
ScanNested(items, found) ==
    IF items = <<>> THEN found
    ELSE LET it == Head(items)
             f  == IF it.path \in Kinds THEN Some(it.path) ELSE found
         IN  IF it.args THEN f ELSE ScanNested(Tail(items), f)

RECURSIVE detect_rust_repr(_)
\* the first #[repr(..)] list attribute in which a kind was found
detect_rust_repr(attrs) ==
    IF attrs = <<>> THEN NoneV
    ELSE LET attr == Head(attrs)
         IN  IF attr.list /\ attr.path = "repr"
             THEN LET found == ScanNested(attr.items, NoneV)
                  IN  IF found.some THEN found ELSE detect_rust_repr(Tail(attrs))
             ELSE detect_rust_repr(Tail(attrs))

\* ResolveRepr with the two sources tried in the other order
ResolveRepr_IntrinsicFirst(d) ==
    LET i == detect_rust_repr(d.attrs)
    IN  IF i.some THEN i ELSE parse_oai_enum_repr(d.repr)

\* line 73
ResolveRepr(d) ==
    LET o == parse_oai_enum_repr(d.repr)
    IN  IF o.some THEN o ELSE detect_rust_repr(d.attrs)

\* lines 75-81: (fmt_str, as_ty, parse_ty, number_getter)
ReprTable(repr) ==
    IF ~repr.some
    THEN [fmt_str |-> "int32", as_ty |-> "i32", parse_ty |-> "i32", number_getter |-> "as_i64"]
    ELSE CASE repr.v = "i32" ->
                [fmt_str |-> "int32", as_ty |-> "i32", parse_ty |-> "i32", number_getter |-> "as_i64"]
           [] repr.v = "i64" ->
                [fmt_str |-> "int64", as_ty |-> "i64", parse_ty |-> "i64", number_getter |-> "as_i64"]
           [] repr.v = "u32" ->
                [fmt_str |-> "int64", as_ty |-> "u32", parse_ty |-> "u32", number_getter |-> "as_u64"]
           [] repr.v = "u64" ->
                [fmt_str |-> "int64", as_ty |-> "u64", parse_ty |-> "u64", number_getter |-> "as_u64"]

U32Max == <<Top, Top, 0, 0>>

\* lines 83-88
min_setter_stmt(repr) ==
    IF repr.some /\ repr.v \in {"u32", "u64"} THEN Some(<<0, 0, 0, 0>>) ELSE NoneV

\* max_setter_stmt with the u32 maximum set for every unsigned kind
max_setter_stmt_Unsigned(repr) ==
    IF repr.some /\ repr.v \in {"u32", "u64"} THEN Some(U32Max) ELSE NoneV

\* lines 89-92
max_setter_stmt(repr) ==
    IF repr.some /\ repr.v = "u32" THEN Some(U32Max) ELSE NoneV

---------------------------------------------------------------------------
(* Variant catalog                                                         *)

LowerChar(c) == CASE c = "A" -> "a" [] c = "B" -> "b" [] c = "C" -> "c" [] OTHER -> c

UpperChar(c) == CASE c = "a" -> "A" [] c = "b" -> "B" [] c = "c" -> "C" [] c = "x" -> "X" [] OTHER -> c

\* RenameRule::rename on identifiers without word separators
apply_rename_rule_variant(rule, name) ==
    IF ~rule.some THEN name
    ELSE CASE rule.v = "lowercase" -> [i \in 1..Len(name) |-> LowerChar(name[i])]
           [] rule.v = "UPPERCASE" -> [i \in 1..Len(name) |-> UpperChar(name[i])]
           [] rule.v = "camelCase" ->
                [i \in 1..Len(name) |-> IF i = 1 THEN LowerChar(name[i]) ELSE name[i]]

\* oai_item_name with the enum's rule taking precedence over the rename
oai_item_name_RuleFirst(d, variant) ==
    IF d.rename_all.some
    THEN apply_rename_rule_variant(d.rename_all, variant.ident)
    ELSE IF variant.rename.some THEN variant.rename.v ELSE variant.ident

\* lines 120-122
oai_item_name(d, variant) ==
    IF variant.rename.some
    THEN variant.rename.v
    ELSE apply_rename_rule_variant(d.rename_all, variant.ident)

IntTypes == Kinds \cup {"u8"}

\* the integer type rustc gives the enum: the integer type of its #[repr(..)]
\* hints (rustc rejects conflicting ones), isize without one
NativeTy(d) ==
    LET hints == {t \in IntTypes :
                    \E a \in 1..Len(d.attrs) :
                       /\ d.attrs[a].list /\ d.attrs[a].path = "repr"
                       /\ \E k \in 1..Len(d.attrs[a].items) : d.attrs[a].items[k].path = t}
    IN  IF hints = {} THEN "isize" ELSE CHOOSE t \in hints : TRUE

\* the value of `Enum::Variant`: its discriminant expression in the native
\* type, as a 64-bit word
Discriminant(d, variant) == ParseInt(NativeTy(d), variant.disc).w

\* `Enum::Variant as as_ty` (lines 132, 133, 136, 139)
DiscAs(d, variant, as_ty) == Cast(as_ty, Discriminant(d, variant))

\* line 64
oai_typename(d) == IF d.rename.some THEN d.rename.v ELSE d.ident

\* RemoteIdx pairing the variants by position instead of by identifier
RemoteIdx_ByPosition(d, ident) ==
    CHOOSE j \in 1..Len(d.variants) : d.variants[j].ident = ident

\* the position of the remote type's variant named ident
RemoteIdx(d, ident) == CHOOSE j \in 1..Len(d.remote.v) : d.remote.v[j] = ident

\* generate (lines 58-176): the pieces the emitted code is built from, or
\* the error for a variant with fields
GenerateOut(d) ==
    LET repr == ResolveRepr(d)
        tab  == ReprTable(repr)
        n    == Len(d.variants)
        name(i) == oai_item_name(d, d.variants[i])
        num(i)  == DiscAs(d, d.variants[i], tab.as_ty)
    IN  IF \E i \in 1..n : d.variants[i].fields
        THEN [ok |-> FALSE,
              invalid |-> d.variants[CHOOSE i \in 1..n :
                             /\ d.variants[i].fields
                             /\ \A j \in 1..(i - 1) : ~d.variants[j].fields].ident]
        ELSE [ok |-> TRUE,
              rust_typename |-> d.path,
              oai_typename |-> oai_typename(d),
              repr |-> repr,
              is_numeric |-> repr.some,
              fmt_str |-> tab.fmt_str,
              as_ty |-> tab.as_ty,
              parse_ty |-> tab.parse_ty,
              number_getter |-> tab.number_getter,
              minimum |-> min_setter_stmt(repr),
              maximum |-> max_setter_stmt(repr),
              ident_to_item |-> [i \in 1..n |-> name(i)],
              item_to_ident |-> [i \in 1..n |-> [item |-> name(i), variant |-> i]],
              ident_to_item_num |-> [i \in 1..n |-> num(i)],
              eq_checks_num |-> [i \in 1..n |-> [val |-> num(i), variant |-> i]],
              remote |-> d.remote.some,
              local_to_remote_items |->
                  IF d.remote.some
                  THEN [i \in 1..n |->
                          [from |-> i, to |-> RemoteIdx(d, d.variants[i].ident)]]
                  ELSE <<>>,
              remote_to_local_items |->
                  IF d.remote.some
                  THEN [i \in 1..n |->
                          [from |-> RemoteIdx(d, d.variants[i].ident), to |-> i]]
                  ELSE <<>>]

---------------------------------------------------------------------------
(* JSON values and results                                                 *)

JNull == [kind |-> "Null"]

JBool == [kind |-> "Bool"]

JArray == [kind |-> "Array"]

JString(s) == [kind |-> "String", s |-> s]

\* serde_json::Number: PosInt(u64), NegInt(i64, negative) or Float
PosInt(w) == [kind |-> "Number", n |-> [k |-> "PosInt", w |-> w]]

NegInt(w) == [kind |-> "Number", n |-> [k |-> "NegInt", w |-> w]]

JFloat(f) == [kind |-> "Number", n |-> [k |-> "Float", f |-> f]]

\* json!(n) for n of an integer type: Number::from
NumberFrom(ty, w) == IF IsNegative(ty, w) THEN NegInt(w) ELSE PosInt(w)

\* Number::as_i64
as_i64(n) ==
    CASE n.k = "PosInt" -> IF TopBit(n.w) THEN NoneV ELSE Some(n.w)
      [] n.k = "NegInt" -> Some(n.w)
      [] OTHER -> NoneV

\* Number::as_u64
as_u64(n) ==
    CASE n.k = "PosInt" -> Some(n.w)
      [] OTHER -> NoneV

Ok(variant) == [ok |-> TRUE, v |-> variant]

Err(e) == [ok |-> FALSE, err |-> e]

\* ParseError::expected_type
WrongType == "expected_type"

\* ParseError::custom(..) of lines 243 and 269
InvalidValue == "invalid enum value"

\* ParseError::custom(..) of line 271
InvalidFormat == "invalid integer"

\* ParseError::custom(..) of line 276
NotEnumValue == "Expect a valid enumeration value."

---------------------------------------------------------------------------
(* The emitted code                                                        *)

\* ToJSON::to_json (lines 282-292)
to_json(g, self) ==
    IF g.is_numeric
    THEN NumberFrom(g.as_ty, g.ident_to_item_num[self])
    ELSE JString(g.ident_to_item[self])

\* SchemaBuilder listing the String mode items in both modes
SchemaBuilder_StringItems(g) ==
    [ty |-> IF g.is_numeric THEN "integer" ELSE "string",
     format |-> IF g.is_numeric THEN Some(g.fmt_str) ELSE NoneV,
     enum_items |-> [i \in 1..Len(g.ident_to_item) |-> JString(g.ident_to_item[i])],
     minimum |-> g.minimum,
     maximum |-> g.maximum]

\* the builder closure of register (lines 209-225)
SchemaBuilder(g) ==
    IF g.is_numeric
    THEN [ty |-> "integer",
          format |-> Some(g.fmt_str),
          enum_items |-> [i \in 1..Len(g.ident_to_item_num) |->
                             NumberFrom(g.as_ty, g.ident_to_item_num[i])],
          minimum |-> g.minimum,
          maximum |-> g.maximum]
    ELSE [ty |-> "string",
          format |-> NoneV,
          enum_items |-> [i \in 1..Len(g.ident_to_item) |-> to_json(g, i)],
          minimum |-> NoneV,
          maximum |-> NoneV]

RECURSIVE EqChecks(_, _)
\* #(#eq_checks_num)* : the first check that holds returns
EqChecks(checks, x) ==
    IF checks = <<>> THEN Err(InvalidValue)
    ELSE IF x = Head(checks).val
         THEN Ok(Head(checks).variant)
         ELSE EqChecks(Tail(checks), x)

RECURSIVE MatchItem(_, _, _)
\* match item { #(#item_to_ident,)* _ => fallback }: the first arm that
\* matches is taken
MatchItem(arms, item, fallback) ==
    IF arms = <<>> THEN Err(fallback)
    ELSE IF item = Head(arms).item
         THEN Ok(Head(arms).variant)
         ELSE MatchItem(Tail(arms), item, fallback)

\* ParseFromJSON::parse_from_json (lines 234-260)
parse_from_json(g, value) ==
    LET json == IF value.some THEN value.v ELSE JNull
        raw  == IF g.number_getter = "as_i64" THEN as_i64(json.n) ELSE as_u64(json.n)
    IN  IF g.is_numeric
        THEN IF json.kind = "Number"
             THEN IF raw.some
                  THEN EqChecks(g.eq_checks_num, Cast(g.as_ty, Cast(g.parse_ty, raw.v)))
                  ELSE Err(WrongType)
             ELSE Err(WrongType)
        ELSE IF json.kind = "String"
             THEN MatchItem(g.item_to_ident, json.s, WrongType)
             ELSE Err(WrongType)

\* parse_from_parameter reporting a parse failure as an invalid value
parse_from_parameter_OneError(g, value) ==
    IF g.is_numeric
    THEN LET parsed == ParseInt(g.parse_ty, value)
         IN  IF parsed.ok
             THEN EqChecks(g.eq_checks_num, Cast(g.as_ty, parsed.w))
             ELSE Err(InvalidValue)
    ELSE MatchItem(g.item_to_ident, value, NotEnumValue)

\* ParseFromParameter::parse_from_parameter (lines 262-280)
parse_from_parameter(g, value) ==
    IF g.is_numeric
    THEN LET parsed == ParseInt(g.parse_ty, value)
         IN  IF parsed.ok
             THEN EqChecks(g.eq_checks_num, Cast(g.as_ty, parsed.w))
             ELSE Err(InvalidFormat)
    ELSE MatchItem(g.item_to_ident, value, NotEnumValue)

\* ParseError::expected_input() of line 302
MissingInput == "expected_input"

\* the ParseError that `?` makes of the error of a failed read (line 299)
ReadFailed == "read failed"

\* Field::text(): the read of a field's payload delivers the field's text,
\* or fails
field_text(field) == field.payload

\* a call of parse_from_multipart that has not been polled yet
NotCalled == [pc |-> "idle", field |-> NoneV, reads |-> 0, res |-> NoneV]

\* ParseFromMultipartField::parse_from_multipart up to its first suspension
\* (lines 297-303): an absent field returns at once; a present field is
\* moved into field.text(), whose future is awaited
parse_from_multipart_poll(g, field) ==
    IF field.some
    THEN [pc |-> "text", field |-> field, reads |-> 1, res |-> NoneV]
    ELSE [pc |-> "done", field |-> field, reads |-> 0, res |-> Some(Err(MissingInput))]

\* parse_from_multipart_resume decoding an empty text after a failed read
parse_from_multipart_resume_Default(g, out) ==
    parse_from_parameter(g, IF out.ok THEN out.s ELSE <<>>)

\* parse_from_multipart once field.text() is ready (lines 299-300): `?`
\* returns the failure of the read, a text goes to parse_from_parameter
parse_from_multipart_resume(g, out) ==
    IF out.ok THEN parse_from_parameter(g, out.s) ELSE Err(ReadFailed)

RECURSIVE MatchArm(_, _)
\* an exhaustive match over the arms of a conversion
MatchArm(arms, value) ==
    IF Head(arms).from = value THEN Head(arms).to ELSE MatchArm(Tail(arms), value)

\* impl From<#ident> for #remote_ty (lines 158-164)
local_to_remote(g, value) == MatchArm(g.local_to_remote_items, value)

\* impl From<#remote_ty> for #ident (lines 166-172)
remote_to_local(g, value) == MatchArm(g.remote_to_local_items, value)

---------------------------------------------------------------------------
(* Schema registry                                                         *)

AllNames == {"E", "EnumA", "AAA"}

\* Registry::create_schema::<T, _>(name, f): f is invoked, and its schema
\* stored, only when the name is not registered yet; a name held by another
\* Rust type is a panic
create_schema(reg, cnt, rust_typename, name, g) ==
    IF reg[name].some
    THEN [registry |-> reg, calls |-> cnt,
          panicked |-> reg[name].v.rust_typename # rust_typename]
    ELSE [registry |-> [reg EXCEPT ![name] =
                           Some([schema |-> SchemaBuilder(g),
                                 rust_typename |-> rust_typename])],
          calls |-> [cnt EXCEPT ![name] = @ + 1],
          panicked |-> FALSE]

\* register storing its schema directly, whatever the registry holds
register_Insert(reg, cnt, g) ==
    [registry |-> [reg EXCEPT ![g.oai_typename] =
                      Some([schema |-> SchemaBuilder(g),
                            rust_typename |-> g.rust_typename])],
     calls |-> [cnt EXCEPT ![g.oai_typename] = @ + 1],
     panicked |-> FALSE]

\* Type::register (lines 207-227)
register(reg, cnt, g) == create_schema(reg, cnt, g.rust_typename, g.oai_typename, g)

---------------------------------------------------------------------------
(* Inputs                                                                  *)

MaxVariants == 2

MaxAttrs == 2

T_U32Max == <<"4", "2", "9", "4", "9", "6", "7", "2", "9", "5">>
T_Wrap1 == <<"4", "2", "9", "4", "9", "6", "7", "2", "9", "7">>
T_I32Over == <<"2", "1", "4", "7", "4", "8", "3", "6", "4", "8">>
T_I32Min == <<"-", "2", "1", "4", "7", "4", "8", "3", "6", "4", "8">>
T_NegWrap1 == <<"-", "4", "2", "9", "4", "9", "6", "7", "2", "9", "5">>
T_I64Over == <<"9", "2", "2", "3", "3", "7", "2", "0", "3", "6", "8", "5", "4", "7", "7", "5", "8", "0", "8">>
T_U64Max == <<"1", "8", "4", "4", "6", "7", "4", "4", "0", "7", "3", "7", "0", "9", "5", "5", "1", "6", "1", "5">>
T_U64Over == <<"1", "8", "4", "4", "6", "7", "4", "4", "0", "7", "3", "7", "0", "9", "5", "5", "1", "6", "1", "6">>

Item(p) == [path |-> p, args |-> FALSE]

ItemWithArgs(p) == [path |-> p, args |-> TRUE]

ReprAttr(items) == [list |-> TRUE, path |-> "repr", items |-> items]

\* attributes an enum can carry
AttrPool ==
    {ReprAttr(<<Item(k)>>) : k \in IntTypes}
    \cup {ReprAttr(<<Item("C")>>),
          ReprAttr(<<Item("C"), Item("i32")>>),
          ReprAttr(<<ItemWithArgs("align"), Item("u64")>>),
          ReprAttr(<<Item("i64"), ItemWithArgs("align")>>),
          [list |-> FALSE, path |-> "non_exhaustive", items |-> <<>>],
          [list |-> TRUE, path |-> "oai", items |-> <<ItemWithArgs("repr")>>]}

\* values of #[oai(repr = "..")]
OverridePool == {NoneV} \cup {Some(k) : k \in Kinds \cup {"u8", "I32"}}

RenameRules == {NoneV, Some("lowercase"), Some("UPPERCASE"), Some("camelCase")}

IdentPool == <<<<"A", "b">>, <<"a", "b">>, <<"B">>, <<"C">>>>

RenamePool == {NoneV, Some(<<"a", "b">>), Some(<<"x">>)}

ImplicitDisc == <<<<"0">>, <<"1">>, <<"2">>, <<"3">>>>

DiscPool == {<<"0">>, <<"1">>, <<"-", "1">>, T_Wrap1, T_U32Max}

Variant(ident, rename, disc, fields) ==
    [ident |-> ident, rename |-> rename, disc |-> disc, fields |-> fields]

EnumArgs(path, ident, rename, rename_all, repr, attrs, variants, remote) ==
    [path |-> path, ident |-> ident, rename |-> rename, rename_all |-> rename_all,
     repr |-> repr, attrs |-> attrs, variants |-> variants, remote |-> remote]

\* injective sequences of length n over S
RECURSIVE InjSeqs(_, _)
InjSeqs(S, n) ==
    IF n = 0 THEN {<<>>}
    ELSE {Append(s, x) : <<s, x>> \in
            {p \in InjSeqs(S, n - 1) \X S : \A k \in 1..Len(p[1]) : p[1][k] # p[2]}}

\* String mode enums: up to MaxVariants unit variants with distinct
\* identifiers, any renames, any rename rule; implicit discriminants
StringDefs ==
    UNION {
      {EnumArgs("E", "E", NoneV, rule, NoneV, <<>>,
                [i \in 1..n |-> Variant(IdentPool[ids[i]], rn[i], ImplicitDisc[i], FALSE)],
                NoneV) :
         <<ids, rn, rule>> \in InjSeqs(1..3, n) \X [1..n -> RenamePool] \X RenameRules}
      : n \in 1..MaxVariants}

\* Integer mode enums: an override, a #[repr(kind)] or both; up to
\* MaxVariants variants whose discriminants are distinct values of the
\* native type
NumericDefs ==
    UNION {
      {EnumArgs("E", "E", NoneV, NoneV, ov, at,
                [i \in 1..n |-> Variant(IdentPool[i], NoneV, ds[i], FALSE)],
                NoneV) :
         <<ov, at, ds>> \in
            {x \in ({NoneV} \cup {Some(k) : k \in Kinds})
                   \X ({<<>>} \cup {<<ReprAttr(<<Item(k)>>)>> : k \in Kinds})
                   \X InjSeqs(DiscPool, n) :
               /\ x[1].some \/ x[2] # <<>>
               /\ \A i \in 1..n :
                     ParseInt(NativeTy([attrs |-> x[2]]), x[3][i]).ok}}
      : n \in 1..MaxVariants}

RECURSIVE SeqsUpTo(_, _)
SeqsUpTo(S, n) ==
    IF n = 0 THEN {<<>>}
    ELSE SeqsUpTo(S, n - 1)
         \cup {Append(s, x) : <<s, x>> \in {p \in SeqsUpTo(S, n - 1) \X S : Len(p[1]) = n - 1}}

\* enums for the resolver: any override, any attributes, one variant that
\* may carry fields
ReprDefs ==
    {EnumArgs("E", "E", NoneV, NoneV, ov, at,
              <<Variant(IdentPool[1], NoneV, ImplicitDisc[1], f)>>, NoneV) :
       <<ov, at, f>> \in OverridePool \X SeqsUpTo(AttrPool, MaxAttrs) \X BOOLEAN}

\* enums with a remote type declaring the same identifiers in any order
RemoteDefs ==
    UNION {
      {EnumArgs("E", "E", NoneV, NoneV, NoneV, <<>>,
                [i \in 1..n |-> Variant(IdentPool[ids[i]], NoneV, ImplicitDisc[i], FALSE)],
                Some([j \in 1..n |-> IdentPool[ids[perm[j]]]])) :
         <<ids, perm>> \in InjSeqs(1..4, n) \X InjSeqs(1..n, n)}
      : n \in 1..MaxVariants}

\* the enum types of the registry scenario: Rust path, OpenAPI name
RegistryTypes ==
    {EnumArgs(x[1], x[2], x[3], NoneV, x[4], <<>>,
              <<Variant(IdentPool[x[5]], NoneV, ImplicitDisc[1], FALSE)>>, NoneV) :
       x \in {<<"EnumA", "EnumA", NoneV, NoneV, 1>>,
              <<"t::EnumA", "EnumA", NoneV, NoneV, 3>>,
              <<"MyEnum", "MyEnum", Some("AAA"), NoneV, 1>>,
              <<"AAA", "AAA", NoneV, NoneV, 1>>,
              <<"E", "E", NoneV, Some("u32"), 1>>,
              <<"u::E", "E", NoneV, NoneV, 1>>,
              <<"v::E2", "E2", Some("E"), Some("i64"), 3>>}}

NameInputs ==
    {<<"A", "b">>, <<"a", "b">>, <<"A", "B">>, <<"B">>, <<"b">>, <<"x">>, <<"z">>}

NumeralInputs ==
    {<<>>, <<"-">>, <<"0">>, <<"1">>, <<"2">>, <<"+", "1">>, <<"-", "1">>, <<"0", "1">>,
     <<"1", "x">>, T_U32Max, T_Wrap1, T_I32Over, T_I32Min, T_NegWrap1,
     T_I64Over, T_U64Max, T_U64Over}

ParamInputs == NameInputs \cup NumeralInputs

U64(text) == ParseInt("u64", text).w

I64(text) == ParseInt("i64", text).w

JsonNumbers ==
    {PosInt(U64(x)) : x \in {<<"0">>, <<"1">>, <<"2">>, T_U32Max, T_Wrap1, T_I64Over, T_U64Max}}
    \cup {NegInt(I64(x)) : x \in {<<"-", "1">>, T_NegWrap1, T_I32Min}}
    \cup {JFloat("1.0"), JFloat("1.5")}

JsonInputs ==
    {NoneV} \cup {Some(v) : v \in {JNull, JBool, JArray}
                                   \cup {JString(s) : s \in NameInputs \cup {<<"1">>}}
                                   \cup JsonNumbers}

MaxTasks == 2

\* the calls of parse_from_multipart that can be in flight
Tasks == 1..MaxTasks

\* outcomes of reading a field
ReadErr == [ok |-> FALSE]

ReadOk(s) == [ok |-> TRUE, s |-> s]

\* a multipart field: what reading its payload will deliver
Field(out) == [payload |-> out]

FieldInputs ==
    {NoneV, Some(Field(ReadErr))}
    \cup {Some(Field(ReadOk(s))) :
            s \in {<<>>, <<"a", "b">>, <<"x">>, <<"1">>, <<"1", "x">>, T_Wrap1}}

\* the enums of the multipart scenario: String mode with a rename and a
\* rule, String mode with one canonical name twice, u32 and i32
MultipartDefs ==
    {EnumArgs("E", "E", NoneV, Some("lowercase"), NoneV, <<>>,
              <<Variant(IdentPool[1], NoneV, ImplicitDisc[1], FALSE),
                Variant(IdentPool[3], Some(<<"x">>), ImplicitDisc[2], FALSE)>>, NoneV),
     EnumArgs("E", "E", NoneV, NoneV, NoneV, <<>>,
              <<Variant(IdentPool[2], NoneV, ImplicitDisc[1], FALSE),
                Variant(IdentPool[3], Some(<<"a", "b">>), ImplicitDisc[2], FALSE)>>, NoneV),
     EnumArgs("E", "E", NoneV, NoneV, NoneV, <<ReprAttr(<<Item("u32")>>)>>,
              <<Variant(IdentPool[1], NoneV, <<"1">>, FALSE),
                Variant(IdentPool[3], NoneV, T_U32Max, FALSE)>>, NoneV),
     EnumArgs("E", "E", NoneV, NoneV, Some("i32"), <<>>,
              <<Variant(IdentPool[1], NoneV, <<"1">>, FALSE),
                Variant(IdentPool[3], NoneV, T_Wrap1, FALSE)>>, NoneV)}

---------------------------------------------------------------------------
(* Behaviour                                                               *)

EmptyRegistry == [n \in AllNames |-> NoneV]

NoTasks == [t \in Tasks |-> NotCalled]

NoCalls == [n \in AllNames |-> 0]

InitWith(defs) ==
    /\ def \in defs
    /\ gen = NoneV
    /\ op = "init" /\ arg = NoneV /\ res = NoneV
    /\ registry = EmptyRegistry /\ calls = NoCalls /\ panicked = FALSE
    /\ tasks = NoTasks

\* the emitted code exists
Ready == gen # NoneV /\ gen.ok /\ ~panicked

\* macro expansion
Generate ==
    /\ gen = NoneV
    /\ gen' = GenerateOut(def)
    /\ op' = "generate" /\ arg' = NoneV /\ res' = NoneV
    /\ UNCHANGED <<def, registry, calls, panicked, tasks>>

Registration(g) ==
    LET out == register(registry, calls, g)
    IN  /\ registry' = out.registry
        /\ calls' = out.calls
        /\ panicked' = out.panicked
        /\ op' = "register" /\ arg' = g.rust_typename /\ res' = NoneV

Register ==
    /\ Ready
    /\ Registration(gen)
    /\ UNCHANGED <<def, gen, tasks>>

ToJson ==
    /\ Ready
    /\ \E v \in 1..Len(def.variants) :
          /\ op' = "to_json" /\ arg' = v /\ res' = to_json(gen, v)
    /\ UNCHANGED <<def, gen, registry, calls, panicked, tasks>>

ParseFromJson ==
    /\ Ready
    /\ \E v \in JsonInputs :
          /\ op' = "parse_from_json" /\ arg' = v /\ res' = parse_from_json(gen, v)
    /\ UNCHANGED <<def, gen, registry, calls, panicked, tasks>>

ParseFromParameter ==
    /\ Ready
    /\ \E v \in ParamInputs :
          /\ op' = "parse_from_parameter" /\ arg' = v
          /\ res' = parse_from_parameter(gen, v)
    /\ UNCHANGED <<def, gen, registry, calls, panicked, tasks>>

IntoRemote ==
    /\ Ready /\ gen.remote
    /\ \E v \in 1..Len(def.variants) :
          /\ op' = "into_remote" /\ arg' = v /\ res' = local_to_remote(gen, v)
    /\ UNCHANGED <<def, gen, registry, calls, panicked, tasks>>

IntoLocal ==
    /\ Ready /\ gen.remote
    /\ \E v \in 1..Len(def.remote.v) :
          /\ op' = "into_local" /\ arg' = v /\ res' = remote_to_local(gen, v)
    /\ UNCHANGED <<def, gen, registry, calls, panicked, tasks>>

\* a call of parse_from_multipart runs to its first suspension
ParseFromMultipart ==
    /\ Ready
    /\ \E t \in Tasks, f \in FieldInputs :
          /\ tasks[t].pc = "idle"
          /\ tasks' = [tasks EXCEPT ![t] = parse_from_multipart_poll(gen, f)]
          /\ op' = "parse_from_multipart" /\ arg' = t /\ res' = tasks'[t].res
    /\ UNCHANGED <<def, gen, registry, calls, panicked>>

\* the host completes the read a call is suspended on, and the call runs
\* to its end
TextReady ==
    /\ Ready
    /\ \E t \in Tasks :
          /\ tasks[t].pc = "text"
          /\ tasks' = [tasks EXCEPT ![t] =
                          [pc |-> "done", field |-> tasks[t].field,
                           reads |-> tasks[t].reads,
                           res |-> Some(parse_from_multipart_resume(
                                           gen, field_text(tasks[t].field.v)))]]
          /\ op' = "text_ready" /\ arg' = t /\ res' = tasks'[t].res
    /\ UNCHANGED <<def, gen, registry, calls, panicked>>

\* several enum types registering into one registry
RegisterType ==
    /\ ~panicked
    /\ \E d \in RegistryTypes : Registration(GenerateOut(d))
    /\ UNCHANGED <<def, gen, tasks>>

\* the codec of one enum
Init == InitWith(StringDefs \cup NumericDefs)

Next == Generate \/ ToJson \/ ParseFromJson \/ ParseFromParameter

Spec == Init /\ [][Next]_vars

\* the schema of one enum, next to what it encodes to
InitSchema == InitWith(StringDefs \cup NumericDefs)

NextSchema == Generate \/ Register \/ ToJson

SpecSchema == InitSchema /\ [][NextSchema]_vars

\* the resolver and the schema of one enum
InitRepr == InitWith(ReprDefs)

NextRepr == Generate \/ Register

SpecRepr == InitRepr /\ [][NextRepr]_vars

\* the remote conversions of one enum
InitRemote == InitWith(RemoteDefs)

NextRemote == Generate \/ IntoRemote \/ IntoLocal

SpecRemote == InitRemote /\ [][NextRemote]_vars

\* the registry shared by several enum types
InitRegistry == InitWith({NoneV})

NextRegistry == RegisterType

SpecRegistry == InitRegistry /\ [][NextRegistry]_vars

\* multipart decodes of one enum, in flight together
InitMultipart == InitWith(MultipartDefs)

NextMultipart == Generate \/ ParseFromMultipart \/ TextReady

SpecMultipart == InitMultipart /\ [][NextMultipart]_vars
---------------------------------------------------------------------------
(* Properties                                                              *)

Expanded == gen # NoneV /\ gen.ok

StringMode == Expanded /\ ~gen.is_numeric

IntegerMode == Expanded /\ gen.is_numeric

NVariants == Len(def.variants)

\* the canonical name of variant i as the catalog defines it: the variant's
\* own rename, else the enum's rename rule applied to the identifier, else
\* the identifier
CanonicalName(i) ==
    LET variant == def.variants[i]
    IN  IF variant.rename.some THEN variant.rename.v
        ELSE IF def.rename_all.some
             THEN apply_rename_rule_variant(def.rename_all, variant.ident)
             ELSE variant.ident

\* the discriminant of variant i on the wire: cast to the resolved kind
WireDisc(i) == Cast(gen.repr.v, Discriminant(def, def.variants[i]))

\* a JSON number is numerically equal to the wire discriminant of variant i
NumEq(n, i) ==
    /\ n.k \in {"PosInt", "NegInt"}
    /\ n.w = WireDisc(i)
    /\ (n.k = "NegInt") = IsNegative(gen.repr.v, WireDisc(i))

\* the text of an encoded value: the string itself, the decimal text of a
\* number
TextOf(json) ==
    IF json.kind = "String" THEN json.s
    ELSE IF json.n.k = "NegInt"
         THEN <<"-">> \o UDecimal(Negate(json.n.w))
         ELSE UDecimal(json.n.w)

Schema == registry[gen.oai_typename].v.schema

Registered == Expanded /\ registry[gen.oai_typename].some

(* C2 as stated: the mode is the kind the override names whenever an       *)
(* override is present, otherwise the kind the intrinsic #[repr] names,    *)
(* and String mode exactly when neither is given.                          *)
HasIntrinsic ==
    \E a \in 1..Len(def.attrs) : def.attrs[a].list /\ def.attrs[a].path = "repr"

C2_AsStated ==
    Expanded =>
       /\ def.repr.some => gen.repr = def.repr
       /\ (~def.repr.some /\ HasIntrinsic) =>
             /\ gen.repr.some
             /\ \E a \in 1..Len(def.attrs) :
                   /\ def.attrs[a].list /\ def.attrs[a].path = "repr"
                   /\ \E k \in 1..Len(def.attrs[a].items) :
                         def.attrs[a].items[k].path = gen.repr.v
       /\ (~gen.is_numeric) <=> (~def.repr.some /\ ~HasIntrinsic)

\* the items of attribute a that the scan reaches: those up to the first
\* item carrying arguments
Reached(a) ==
    {k \in 1..Len(def.attrs[a].items) :
        \A j \in 1..(k - 1) : ~def.attrs[a].items[j].args}

\* attribute a is a #[repr(..)] that names one of the four kinds
NamesKind(a) ==
    /\ def.attrs[a].list /\ def.attrs[a].path = "repr"
    /\ \E k \in Reached(a) : def.attrs[a].items[k].path \in Kinds

\* the last of the four kinds among the reached items of attribute a
KindNamed(a) ==
    LET ks == {k \in Reached(a) : def.attrs[a].items[k].path \in Kinds}
    IN  def.attrs[a].items[CHOOSE k \in ks : \A j \in ks : j <= k].path

Recognised == def.repr.some /\ def.repr.v \in Kinds

(* C2, amended: the mode is the override when the override is one of i32,  *)
(* i64, u32, u64; otherwise the kind named by the first #[repr(..)] that   *)
(* names one of the four; String mode exactly when neither names one.  A   *)
(* recognised override makes the attributes irrelevant.                    *)
C2_Resolution ==
    Expanded =>
       /\ Recognised => gen.repr = def.repr
       /\ (~Recognised /\ \E a \in 1..Len(def.attrs) : NamesKind(a)) =>
             LET first == CHOOSE a \in 1..Len(def.attrs) :
                             NamesKind(a) /\ \A b \in 1..(a - 1) : ~NamesKind(b)
             IN  gen.repr = Some(KindNamed(first))
       /\ (~gen.is_numeric) <=>
             (~Recognised /\ ~\E a \in 1..Len(def.attrs) : NamesKind(a))

C2_Witness ==
    /\ Expanded
    /\ def.repr = Some("u32")
    /\ \E a \in 1..Len(def.attrs) : NamesKind(a) /\ KindNamed(a) = "i64"
    /\ gen.repr = Some("u32")

(* C3: the schema's type, format and bounds are a fixed function of the    *)
(* resolved mode: string without format or bounds; i32 integer/int32; i64  *)
(* integer/int64; u32 integer/int64 with minimum 0 and maximum 4294967295; *)
(* u64 integer/int64 with minimum 0 and no maximum.                        *)
C3_SchemaShape ==
    Registered =>
       LET zero == Some(U64(<<"0">>))
           max  == Some(U64(T_U32Max))
           shape == [ty |-> Schema.ty, format |-> Schema.format,
                     minimum |-> Schema.minimum, maximum |-> Schema.maximum]
           want(ty, format, minimum, maximum) ==
               [ty |-> ty, format |-> format, minimum |-> minimum, maximum |-> maximum]
       IN  IF ~gen.repr.some
           THEN shape = want("string", NoneV, NoneV, NoneV)
           ELSE CASE gen.repr.v = "i32" -> shape = want("integer", Some("int32"), NoneV, NoneV)
                  [] gen.repr.v = "i64" -> shape = want("integer", Some("int64"), NoneV, NoneV)
                  [] gen.repr.v = "u32" -> shape = want("integer", Some("int64"), zero, max)
                  [] gen.repr.v = "u64" -> shape = want("integer", Some("int64"), zero, NoneV)

C3_Witness ==
    /\ Registered
    /\ gen.repr = Some("u64")
    /\ Schema.minimum.some /\ ~Schema.maximum.some

(* C4: enum_items has one entry per declared variant, in declaration       *)
(* order; entry i is what variant i encodes to: the canonical name as a    *)
(* JSON string in String mode, the discriminant cast to the wire type as a *)
(* JSON number in Integer mode.                                            *)
C4_EnumItems ==
    Registered =>
       /\ Len(Schema.enum_items) = NVariants
       /\ \A i \in 1..NVariants :
             LET e == Schema.enum_items[i]
             IN  IF gen.repr.some
                 THEN e.kind = "Number" /\ NumEq(e.n, i)
                 ELSE e.kind = "String" /\ e.s = CanonicalName(i)
       /\ op = "to_json" => Schema.enum_items[arg] = res

C4_Witness ==
    /\ Registered
    /\ op = "to_json" /\ arg = 2
    /\ Schema.enum_items[1] # Schema.enum_items[2]

\* the string handed to a decode, if the input is one
IsStringInput ==
    \/ op = "parse_from_parameter"
    \/ op = "parse_from_json" /\ arg.some /\ arg.v.kind = "String"

StringInput == IF op = "parse_from_parameter" THEN arg ELSE arg.v.s

(* C1 as stated: decoding what a variant encodes to gives the variant      *)
(* back, from JSON and from the text of the encoded value as a parameter.  *)
C1_RoundTrip ==
    (Expanded /\ op = "to_json") =>
       /\ parse_from_json(gen, Some(res)) = Ok(arg)
       /\ parse_from_parameter(gen, TextOf(res)) = Ok(arg)

(* C5: the canonical name is the variant's rename if given, else the       *)
(* enum's rename rule applied to the identifier, else the identifier;      *)
(* String mode decode accepts a canonical name, and rejects an identifier  *)
(* that differs from its variant's canonical name and is no variant's      *)
(* canonical name.                                                         *)
C5_CanonicalName ==
    Expanded =>
       /\ \A i \in 1..NVariants : gen.ident_to_item[i] = CanonicalName(i)
       /\ (StringMode /\ IsStringInput) =>
             LET s == StringInput
             IN  /\ (\E i \in 1..NVariants : CanonicalName(i) = s) =>
                       res.ok /\ CanonicalName(res.v) = s
                 /\ (/\ \E i \in 1..NVariants :
                          def.variants[i].ident = s /\ CanonicalName(i) # s
                     /\ \A j \in 1..NVariants : CanonicalName(j) # s) => ~res.ok

C5_Witness ==
    /\ StringMode /\ op = "parse_from_json" /\ IsStringInput
    /\ def.rename_all.some
    /\ \E i \in 1..NVariants :
          /\ def.variants[i].rename.some
          /\ def.variants[i].ident = StringInput
          /\ CanonicalName(i) # apply_rename_rule_variant(def.rename_all, StringInput)
    /\ ~res.ok

(* C7 as stated: JSON decode fails with WrongType for an input of the      *)
(* wrong JSON kind or an absent one, and with InvalidValue for an input of *)
(* the right kind that matches no variant, in both modes.                  *)
C7_JsonFailures ==
    (Expanded /\ op = "parse_from_json") =>
       LET kind == IF gen.is_numeric THEN "Number" ELSE "String"
           rightKind == arg.some /\ arg.v.kind = kind
           matches(i) == IF gen.is_numeric THEN NumEq(arg.v.n, i)
                                           ELSE arg.v.s = CanonicalName(i)
       IN  /\ ~rightKind => res = Err(WrongType)
           /\ (rightKind /\ \A i \in 1..NVariants : ~matches(i)) => res = Err(InvalidValue)
           /\ WrongType # InvalidValue

(* C8: parameter decode in Integer mode fails with InvalidFormat when the  *)
(* text does not parse as the resolved integer type, with InvalidValue     *)
(* when the parsed value is no variant's wire discriminant, and otherwise  *)
(* returns the first variant whose wire discriminant is the parsed value;  *)
(* in String mode it returns the variant of the canonical name and fails   *)
(* with the not-a-valid-enumeration-value failure for any other string.    *)
C8_ParameterDecode ==
    (Expanded /\ op = "parse_from_parameter") =>
       IF gen.is_numeric
       THEN LET parsed == ParseInt(gen.repr.v, arg)
                hits   == {i \in 1..NVariants : WireDisc(i) = parsed.w}
            IN  IF ~parsed.ok THEN res = Err(InvalidFormat)
                ELSE IF hits = {} THEN res = Err(InvalidValue)
                ELSE res = Ok(CHOOSE i \in hits : \A j \in hits : i <= j)
       ELSE LET hits == {i \in 1..NVariants : CanonicalName(i) = arg}
            IN  IF hits = {} THEN res = Err(NotEnumValue)
                ELSE res = Ok(CHOOSE i \in hits : \A j \in hits : i <= j)

C8_Witness ==
    /\ IntegerMode /\ op = "parse_from_parameter"
    /\ NVariants >= 2 /\ WireDisc(1) = WireDisc(2)
    /\ res = Ok(1)

(* C10 as stated, for the integers the accessor extracts: in Integer mode *)
(* JSON decode of a number returns a variant only if the number is         *)
(* numerically equal to its wire discriminant, the first such in           *)
(* declaration order, and fails with InvalidValue for a number equal to no *)
(* declared discriminant; a number outside the 32-bit range is never       *)
(* wrapped onto a discriminant.                                            *)
C10_NoNarrowing ==
    (/\ IntegerMode /\ op = "parse_from_json"
     /\ arg.some /\ arg.v.kind = "Number"
     /\ (IF gen.number_getter = "as_i64" THEN as_i64(arg.v.n) ELSE as_u64(arg.v.n)).some) =>
       LET hits == {i \in 1..NVariants : NumEq(arg.v.n, i)}
       IN  IF hits = {} THEN res = Err(InvalidValue)
           ELSE res = Ok(CHOOSE i \in hits : \A j \in hits : i <= j)

(* C9: the remote conversions are total, map a variant to the variant of   *)
(* the same identifier, and are inverse to each other.                     *)
C9_RemoteBridge ==
    Expanded =>
       /\ op = "into_remote" =>
             /\ res \in 1..Len(def.remote.v)
             /\ def.remote.v[res] = def.variants[arg].ident
             /\ remote_to_local(gen, res) = arg
       /\ op = "into_local" =>
             /\ res \in 1..NVariants
             /\ def.variants[res].ident = def.remote.v[arg]
             /\ local_to_remote(gen, res) = arg

C9_Witness ==
    /\ Expanded /\ op = "into_remote"
    /\ res # arg
    /\ remote_to_local(gen, res) = arg

\* the OpenAPI name a Rust type registers under
NameOf(rust_typename) ==
    oai_typename(CHOOSE d \in RegistryTypes : d.path = rust_typename)

(* C6: the registry is write-once per name: the builder of a name runs     *)
(* exactly once, on its first registration; registering the same type      *)
(* again changes nothing; a different type registering under a used name   *)
(* fails and leaves the stored descriptor in place.                        *)
C6_WriteOnce ==
    /\ [](\A n \in AllNames :
            /\ calls[n] <= 1
            /\ (calls[n] = 1) <=> registry[n].some)
    /\ [][(op' = "register") =>
            LET n == NameOf(arg')
            IN  /\ \A m \in AllNames : registry[m].some => registry'[m] = registry[m]
                /\ \A m \in AllNames \ {n} : registry'[m] = registry[m]
                                             /\ calls'[m] = calls[m]
                /\ IF ~registry[n].some
                   THEN /\ calls'[n] = 1
                        /\ registry'[n].some
                        /\ registry'[n].v.rust_typename = arg'
                        /\ ~panicked'
                   ELSE /\ calls'[n] = calls[n]
                        /\ panicked' = (registry[n].v.rust_typename # arg')]_vars

C6_Witness ==
    /\ panicked
    /\ op = "register"
    /\ registry[NameOf(arg)].some
    /\ registry[NameOf(arg)].v.rust_typename # arg
    /\ calls[NameOf(arg)] = 1

(* C11 as stated: in String mode the canonical names of the variants of an *)
(* expanded enum are pairwise distinct, so String mode decode of a         *)
(* variant's canonical name reaches that variant's own match arm: no       *)
(* variant is shadowed by an earlier one.                                  *)
C11_CatalogUnique ==
    StringMode =>
       /\ \A i, j \in 1..NVariants :
             i # j => gen.ident_to_item[i] # gen.ident_to_item[j]
       /\ \A i \in 1..NVariants :
             MatchItem(gen.item_to_ident, gen.ident_to_item[i], WrongType) = Ok(i)

\* what parameter decode is to return for a text: the failures and the
\* first matching variant, from the enum's definition
DecodeOf(s) ==
    IF gen.is_numeric
    THEN LET parsed == ParseInt(gen.repr.v, s)
             hits   == {i \in 1..NVariants : WireDisc(i) = parsed.w}
         IN  IF ~parsed.ok THEN Err(InvalidFormat)
             ELSE IF hits = {} THEN Err(InvalidValue)
             ELSE Ok(CHOOSE i \in hits : \A j \in hits : i <= j)
    ELSE LET hits == {i \in 1..NVariants : CanonicalName(i) = s}
         IN  IF hits = {} THEN Err(NotEnumValue)
             ELSE Ok(CHOOSE i \in hits : \A j \in hits : i <= j)

(* C12: multipart decode of an absent field fails with MissingInput and    *)
(* starts no read; of a present field it starts one read, has no result    *)
(* while suspended on it, and ends with the failure of a failed read or    *)
(* with what parameter decode gives for the text read.  With several       *)
(* decodes in flight each result is determined by the call's own field: a  *)
(* step moves one call only, and a finished call is changed by no other    *)
(* call's read completing, in whatever order the reads complete.           *)
C12_MultipartDecode ==
    /\ [](Expanded =>
            \A t \in Tasks :
               LET task == tasks[t]
               IN  CASE task.pc = "idle" -> task.reads = 0 /\ ~task.res.some
                     [] task.pc = "text" ->
                           task.field.some /\ task.reads = 1 /\ ~task.res.some
                     [] task.pc = "done" ->
                           IF ~task.field.some
                           THEN task.reads = 0 /\ task.res = Some(Err(MissingInput))
                           ELSE /\ task.reads = 1
                                /\ task.res =
                                      IF task.field.v.payload.ok
                                      THEN Some(DecodeOf(task.field.v.payload.s))
                                      ELSE Some(Err(ReadFailed)))
    /\ [][\A t \in Tasks :
            /\ tasks[t].pc = "done" => tasks'[t] = tasks[t]
            /\ tasks'[t] # tasks[t] =>
                  /\ \A u \in Tasks \ {t} : tasks'[u] = tasks[u]
                  /\ tasks'[t].pc = "done" =>
                        tasks'[t].field = IF tasks[t].pc = "text" THEN tasks[t].field
                                                                  ELSE NoneV]_vars

\* two decodes suspended together; the one started on the later slot has
\* completed first with a variant, the other is still at its read of a
\* different text
C12_Witness ==
    /\ Expanded
    /\ op = "text_ready" /\ arg = 2
    /\ tasks[2].pc = "done" /\ tasks[2].res.some /\ tasks[2].res.v.ok
    /\ tasks[1].pc = "text"
    /\ tasks[1].field # tasks[2].field
====
